---- MODULE Spec2Model ----
(***************************************************************************)
(* misosoup: isotope-distribution simulation (mol.py) and the              *)
(* parameterized query layer (sql.py), as a state machine of one           *)
(* analytical session.  The caller issues one request at a time; each      *)
(* action is one call of a public function of the package.                 *)
(*                                                                         *)
(* Numbers.  Masses are held as integers in units of 10^-MassDigits Da,    *)
(* probabilities in units of 10^-ProbDigits, a rounded m/z in units of     *)
(* 10^-precision.  Query text is a sequence of tokens; the token NL is     *)
(* the line break and TAB the tabulator.                                   *)
(***************************************************************************)
EXTENDS Integers, Sequences, FiniteSets, TLC

VARIABLES
    conn,     \* DUCKDB_CONN: the process-wide engine connection
    msq,      \* the Query Object the caller holds (NoQuery when none)
    op,       \* the request issued last
    args,     \* its arguments
    out,      \* its outcome: a value, None, or an exception that escaped
    calls     \* engine invocations made by that request, in order

vars == <<conn, msq, op, args, out, calls>>

\* the field names of the records of the model, in the order every record
\* lists them
FieldNames ==
    DOMAIN [charge |-> 0, closed |-> 0, cols |-> 0, db_engine |-> 0, drt |-> 0,
            dscan |-> 0, dtof |-> 0, elems |-> 0, err |-> 0, exc |-> 0,
            feature_id |-> 0, footer |-> 0, formula |-> 0, ids |-> 0, idx |-> 0,
            intensity |-> 0, kind |-> 0, lines |-> 0, logged |-> 0, module |-> 0,
            ms_level |-> 0, msrun_id |-> 0, msrun_ids |-> 0, mz |-> 0,
            mz_range |-> 0, name |-> 0, next |-> 0, num |-> 0, ok |-> 0,
            precision |-> 0, prob |-> 0, py |-> 0, raw |-> 0, relations |-> 0,
            row_count |-> 0, rows |-> 0, rt |-> 0, rt_range |-> 0, sql |-> 0,
            str |-> 0, tag |-> 0, template |-> 0, text |-> 0, th |-> 0,
            tmz |-> 0, tol_ppm |-> 0, tri |-> 0, value |-> 0, wrap |-> 0]

-----------------------------------------------------------------------------
(* Bounds of the model *)

\* charges range over -MaxCharge .. MaxCharge
MaxCharge == 3
\* the count wrapper is applied at most MaxWrap times to a built query
MaxWrap == 1
\* thresholds range over 10^-ThDefault .. 10^-MaxTh
MaxTh == 4
\* the smallest precision a caller asks for
LowPrecision == 1
\* the largest tol_ppm a caller asks for
MaxTol == 20

(* Program constants and units *)

\* decimal digits kept of a mass: 1 unit = 10^-8 Da
MassDigits == 8
\* decimal digits kept of a probability: 1 unit = 10^-7
ProbDigits == 7
\* M.E = 0.00054858 Da, in mass units
ME == 54858
\* default precision of hrms
HrmsPrecision == 6
\* default precision of lrms
LrmsPrecision == 5
\* default threshold th = 1e-3 of hrms, held as its exponent: th = 10^-ThDefault
ThDefault == 3
\* default tol_ppm of mw_range
TolDefault == 10
\* defaults of get_ms1_features
MinMs1Intensity == 10
RtWindow == 10
SpectrumWindow == 5
TofWindow == 3

-----------------------------------------------------------------------------
(* Arithmetic *)

RECURSIVE Pow10(_)
Pow10(n) == IF n <= 0 THEN 1 ELSE 10 * Pow10(n - 1)

Abs(x) == IF x < 0 THEN -x ELSE x

\* the integer nearest to fl + r/den (0 <= r < den), ties to the even one
round_at(fl, r, den) ==
    IF 2 * r < den THEN fl
    ELSE IF 2 * r > den THEN fl + 1
    ELSE IF fl % 2 = 0 THEN fl ELSE fl + 1

\* np.round: the integer nearest to num/den (den > 0), ties to the even one
np_round(num, den) == round_at(num \div den, num % den, den)

\* np.int32(x) of a non-negative x = num/den: the fraction is cut off
np_int32(num, den) == num \div den

-----------------------------------------------------------------------------
(* Outcomes of a call *)

\* the call returned v
Ok(v, logged) == [exc |-> "", kind |-> "ok", logged |-> logged, value |-> v]
\* the call returned None (after log.error when logged)
None(logged) == [exc |-> "", kind |-> "none", logged |-> logged, value |-> << >>]
\* exception e left the call
Raise(e, logged) == [exc |-> e, kind |-> "raise", logged |-> logged, value |-> << >>]

\* exceptions the package raises on purpose with a raise statement
Signals == {"ValueError", "TypeError: IDs must be one of", "NotImplementedError"}

\* an exception no statement of the package raises or handles
IsFault(o) == o.kind = "raise" /\ o.exc \notin Signals

-----------------------------------------------------------------------------
(* mol.py: the external formula parser and isotope engines.  Both are      *)
(* black boxes; the tables below fix their answers for a few formulas.     *)

\* formulas a caller passes: water, methane, atomic hydrogen, labelled methane
\* (isotope label), a string that is no formula, and a formula of no atoms
Formulas == {"H2O", "CH4", "H", "[13C]H4", "Xx", "H0"}

\* molmass.Formula(formula) parses; otherwise molmass.FormulaError
molmass_Formula(formula) == formula \in {"H2O", "CH4", "H", "[13C]H4", "H0"}

\* IsoSpecPy takes the formula; otherwise ValueError (isotope labels)
IsoSpec_accepts(formula) == formula \in {"H2O", "CH4", "H", "H0"}

\* the isotopologues <<mass, probability>> of a formula, in the order the
\* engine enumerates them (not by mass)
Isotopologues(formula) ==
    CASE formula = "H2O" -> << <<1801056468, 9973409>>, <<2001481037, 20495>>,
                               <<1901478156, 3799>>, <<1901684144, 2294>> >>
      [] formula = "CH4" -> << <<1603130013, 9884205>>, <<1703465497, 106905>>,
                               <<1703757689, 4548>> >>
      [] formula = "H" -> << <<100782503, 9998843>>, <<201410178, 1157>> >>
      [] OTHER -> << >>

RECURSIVE MaxProb(_)
MaxProb(s) ==
    IF s = << >> THEN 0
    ELSE LET m == MaxProb(Tail(s)) IN IF Head(s)[2] > m THEN Head(s)[2] ELSE m

RECURSIVE SelectSeqBy(_, _)
SelectSeqBy(s, cut) ==
    IF s = << >> THEN << >>
    ELSE IF Head(s)[2] >= cut THEN <<Head(s)>> \o SelectSeqBy(Tail(s), cut)
    ELSE SelectSeqBy(Tail(s), cut)

\* IsoThresholdGenerator(formula, threshold = 10^-th): the isotopologues whose
\* probability is at least threshold times the largest one
IsoThresholdGenerator(formula, th) ==
    LET all == Isotopologues(formula)
    IN  SelectSeqBy(all, MaxProb(all) \div Pow10(th))

\* ef.spectrum(minfract=1e-4): mass number -> <<mean mass, fraction>>,
\* as the sequence of <<mass number, mean mass, fraction>> in key order
molmass_spectrum(formula) ==
    CASE formula = "H2O" -> << <<18, 1801056468, 9973409>>, <<19, 1901555612, 6093>>,
                               <<20, 2001481037, 20495>> >>
      [] formula = "CH4" -> << <<16, 1603130013, 9884205>>, <<17, 1703477408, 111453>> >>
      [] formula = "H" -> << <<1, 100782503, 9998843>>, <<2, 201410178, 1157>> >>
      [] formula = "[13C]H4" -> << <<17, 1703465497, 9995401>>, <<18, 1804093174, 4599>> >>
      [] OTHER -> << >>

-----------------------------------------------------------------------------
(* mol.py: hrms, lrms, mw_range *)

\* df.sort_values(["tmz"]): rows ascending by raw mass (insertion sort)
RECURSIVE sort_insert(_, _)
sort_insert(row, s) ==
    IF s = << >> THEN <<row>>
    ELSE IF row.raw < Head(s).raw THEN <<row>> \o s
    ELSE <<Head(s)>> \o sort_insert(row, Tail(s))

\* sort_values leaving the rows in the order the engine enumerated them
sort_values_skipped(df) == df

RECURSIVE sort_values(_)
sort_values(df) ==
    IF df = << >> THEN << >>
    ELSE sort_insert(Head(df), sort_values(Tail(df)))

\* hrms_charge dividing by the charge itself instead of abs(charge)
hrms_charge_signed(raw, charge) ==
    IF charge # 0 THEN <<(raw - ME * charge) * (IF charge < 0 THEN -1 ELSE 1), Abs(charge)>>
    ELSE <<raw, 1>>

\* a column value after charge correction, as the fraction <<num, den>>
hrms_charge(raw, charge) ==
    IF charge # 0 THEN <<raw - ME * charge, Abs(charge)>> ELSE <<raw, 1>>

\* df["tmz"] of hrms: corrected, then np.round(.., precision)
hrms_tmz(raw, charge, precision) ==
    LET x == hrms_charge(raw, charge)
    IN  np_round(x[1], x[2] * Pow10(MassDigits - precision))

\* df["tri"] of hrms: np.int32(tri * 1e6)
hrms_tri(p) == np_int32(p, Pow10(ProbDigits - 6))

hrms(formula, charge, precision, th) ==
    IF ~molmass_Formula(formula) THEN None(TRUE)
    ELSE IF ~IsoSpec_accepts(formula) THEN None(TRUE)
    ELSE
      LET _spectrum == IsoThresholdGenerator(formula, th)
          df == sort_values([i \in 1..Len(_spectrum) |->
                   [idx |-> i - 1, prob |-> _spectrum[i][2], raw |-> _spectrum[i][1]]])
      IN  Ok([i \in 1..Len(df) |->
                 [idx |-> df[i].idx,
                  tmz |-> hrms_tmz(df[i].raw, charge, precision),
                  tri |-> hrms_tri(df[i].prob)]], FALSE)

\* v[0] of lrms after the loop over _spectrum.items()
lrms_charge(raw, charge) ==
    IF charge # 0 THEN <<raw - ME * charge, Abs(charge)>> ELSE <<raw, 1>>

lrms_tmz(raw, charge, precision) ==
    LET x == lrms_charge(raw, charge)
    IN  np_round(x[1], x[2] * Pow10(MassDigits - precision))

lrms_tri(p) == np_int32(p, Pow10(ProbDigits - 6))

lrms(formula, charge, precision) ==
    IF ~molmass_Formula(formula) THEN None(TRUE)
    ELSE
      LET _spectrum == molmass_spectrum(formula)
      IN  Ok([i \in 1..Len(_spectrum) |->
                 [idx |-> _spectrum[i][1],
                  tmz |-> lrms_tmz(_spectrum[i][2], charge, precision),
                  tri |-> lrms_tri(_spectrum[i][3])]], FALSE)

\* mw_bound adding the tolerance for the lower bound too
mw_bound_upper(mw, sign, tol_ppm) ==
    LET x  == mw * tol_ppm
        fl == x \div Pow10(6)
    IN  round_at(mw + fl, x - fl * Pow10(6), Pow10(6))

\* mw * (1 + sign * tol_ppm * 1e-6) rounded to 6 decimals, mw in 10^-6 Da
mw_bound(mw, sign, tol_ppm) ==
    LET x  == mw * tol_ppm * sign
        fl == x \div Pow10(6)
    IN  round_at(mw + fl, x - fl * Pow10(6), Pow10(6))

mw_range(mf, charge, tol_ppm) ==
    LET t == hrms(mf, charge, HrmsPrecision, ThDefault)
    IN  IF t.kind = "none" THEN Raise("AttributeError", t.logged)
        ELSE IF t.value = << >> THEN Raise("IndexError", t.logged)
        ELSE LET mw == t.value[1].tmz
             IN  Ok(<<mw_bound(mw, -1, tol_ppm), mw_bound(mw, 1, tol_ppm)>>, t.logged)

-----------------------------------------------------------------------------
(* sql.py: text.  A query text is a sequence of tokens.                    *)

\* fixed text of a template or of the package
Kw(s) == [num |-> 0, str |-> s, tag |-> "kw"]
\* the decimal text of a number
Num(n) == [num |-> n, str |-> "", tag |-> "num"]
\* caller-supplied text, inserted as it is
Raw(s) == [num |-> 0, str |-> s, tag |-> "raw"]
\* a named substitution point {name} of a template
Ph(name) == [num |-> 0, str |-> name, tag |-> "ph"]

NL == Kw("\n")
TAB == Kw("\t")

\* Python values a caller passes for a scalar parameter
PyNone == [num |-> 0, py |-> "None", str |-> ""]
PyInt(n) == [num |-> n, py |-> "int", str |-> ""]
PyStr(s) == [num |-> 0, py |-> "str", str |-> s]

\* str(v), as f"{v}" and str.format insert it
py_str(v) ==
    IF v.py = "int" THEN <<Num(v.num)>>
    ELSE IF v.py = "str" THEN <<Raw(v.str)>>
    ELSE <<Kw("None")>>

\* the positions of the line breaks of a text
breaks(text) == {i \in 1..Len(text) : text[i] = NL}

\* the position of the k-th line break; 0 for k = 0, Len + 1 past the last
break_at(text, k) ==
    IF k = 0 THEN 0
    ELSE IF k > Cardinality(breaks(text)) THEN Len(text) + 1
    ELSE CHOOSE i \in breaks(text) : Cardinality({j \in breaks(text) : j < i}) = k - 1

\* str.split("\n"): the pieces between line breaks (at least one piece)
split(text) ==
    [k \in 1..(Cardinality(breaks(text)) + 1) |->
        SubSeq(text, break_at(text, k - 1) + 1, break_at(text, k) - 1)]

\* "\n".join(lines)
RECURSIVE join(_)
join(lines) ==
    IF lines = << >> THEN << >>
    ELSE IF Len(lines) = 1 THEN lines[1]
    ELSE lines[1] \o <<NL>> \o join(Tail(lines))

-----------------------------------------------------------------------------
(* sql.py: the columnar engine behind DUCKDB_CONN, a black box.  It reads  *)
(* the statements the templates produce: a filtered selection from one     *)
(* registered relation, optionally limited, optionally wrapped as the      *)
(* sub-relation of a row count.  Anything else is an engine error.         *)

\* the folders of DATA_ROOT, one relation each
Tables == {"features", "frames"}

\* the rows of a registered relation
Data(rel) ==
    IF rel = "features" THEN
      << [drt |-> 3, dscan |-> 2, dtof |-> 1, feature_id |-> 0, intensity |-> 50, msrun_id |-> "RUN1", mz |-> 2, rt |-> 1],
         [drt |-> 9, dscan |-> 5, dtof |-> 3, feature_id |-> 0, intensity |-> 12, msrun_id |-> "RUN1", mz |-> 3, rt |-> 4],
         [drt |-> 0, dscan |-> 0, dtof |-> 0, feature_id |-> 7, intensity |-> 10, msrun_id |-> "RUN1", mz |-> 5, rt |-> 2],
         [drt |-> 1, dscan |-> 1, dtof |-> 2, feature_id |-> 7, intensity |-> 99, msrun_id |-> "RUN1", mz |-> 9, rt |-> 6],
         [drt |-> 2, dscan |-> 4, dtof |-> 1, feature_id |-> 0, intensity |-> 30, msrun_id |-> "RUN2", mz |-> 3, rt |-> 3],
         [drt |-> 1, dscan |-> 1, dtof |-> 1, feature_id |-> 8, intensity |-> 5, msrun_id |-> "RUN2", mz |-> 4, rt |-> 1] >>
    ELSE IF rel = "frames" THEN
      << [ms_level |-> 1, msrun_id |-> "RUN1", rt |-> 1],
         [ms_level |-> 2, msrun_id |-> "RUN1", rt |-> 1],
         [ms_level |-> 1, msrun_id |-> "RUN1", rt |-> 2],
         [ms_level |-> 1, msrun_id |-> "RUN2", rt |-> 1],
         [ms_level |-> 2, msrun_id |-> "RUN2", rt |-> 2] >>
    ELSE << >>

EngineError == [cols |-> {}, err |-> TRUE, rows |-> << >>]
EngineTable(cols, rows) == [cols |-> cols, err |-> FALSE, rows |-> rows]

\* the text without its white space
Significant(text) == SelectSeq(text, LAMBDA tok : tok \notin {NL, TAB})

\* a comparison of the engine: v op a, or a <= v <= b
Test(v, cmp, a, b) ==
    CASE cmp = "=" -> v = a
      [] cmp = ">=" -> v >= a
      [] cmp = "<=" -> v <= a
      [] OTHER -> a <= v /\ v <= b

\* the rows of s whose field passes the comparison
Keep(s, field, cmp, a, b) == SelectSeq(s, LAMBDA row : Test(row[field], cmp, a, b))

\* the rows of s of the runs ids
KeepIn(s, ids) == SelectSeq(s, LAMBDA row : row.msrun_id \in ids)

RECURSIVE ParseIds(_, _, _)
\* 'a' , 'b' ... ) from position i: the identifiers and the position after ")"
ParseIds(toks, i, ids) ==
    IF i + 2 > Len(toks) THEN [ids |-> {}, next |-> 0, ok |-> FALSE]
    ELSE IF toks[i] = Kw("'") /\ toks[i + 1].tag = "raw" /\ toks[i + 2] = Kw("'")
    THEN IF i + 3 > Len(toks) THEN [ids |-> {}, next |-> 0, ok |-> FALSE]
         ELSE IF toks[i + 3] = Kw(")")
              THEN [ids |-> ids \cup {toks[i + 1].str}, next |-> i + 4, ok |-> TRUE]
         ELSE IF toks[i + 3] = Kw(",")
              THEN ParseIds(toks, i + 4, ids \cup {toks[i + 1].str})
         ELSE [ids |-> {}, next |-> 0, ok |-> FALSE]
    ELSE [ids |-> {}, next |-> 0, ok |-> FALSE]

RECURSIVE ParseConds(_, _, _, _)
\* AND field op value ... [LIMIT n] from position i, applied to rows
ParseConds(toks, i, rows, cols) ==
    IF i > Len(toks) THEN EngineTable(cols, rows)
    ELSE IF toks[i] = Kw("LIMIT")
    THEN IF i + 1 = Len(toks) /\ toks[i + 1].tag = "num" /\ toks[i + 1].num >= 0
         THEN EngineTable(cols, SubSeq(rows, 1,
                  IF toks[i + 1].num < Len(rows) THEN toks[i + 1].num ELSE Len(rows)))
         ELSE EngineError
    ELSE IF toks[i] # Kw("AND") \/ i + 3 > Len(toks) THEN EngineError
    ELSE IF toks[i + 1].tag # "kw" \/ toks[i + 1].str \notin cols THEN EngineError
    ELSE IF toks[i + 3].tag # "num" THEN EngineError
    ELSE IF toks[i + 2] \in {Kw("="), Kw(">="), Kw("<=")}
         THEN ParseConds(toks, i + 4,
                  Keep(rows, toks[i + 1].str, toks[i + 2].str, toks[i + 3].num, 0), cols)
    ELSE IF toks[i + 2] = Kw("BETWEEN") /\ i + 5 <= Len(toks)
         THEN IF toks[i + 4] = Kw("AND") /\ toks[i + 5].tag = "num"
              THEN ParseConds(toks, i + 6,
                       Keep(rows, toks[i + 1].str, "BETWEEN", toks[i + 3].num, toks[i + 5].num),
                       cols)
              ELSE EngineError
    ELSE EngineError

\* the numeric columns of a registered relation
Columns(rel) ==
    IF rel = "features"
    THEN {"feature_id", "mz", "rt", "intensity", "drt", "dtof", "dscan"}
    ELSE IF rel = "frames" THEN {"ms_level", "rt"}
    ELSE {}

\* SELECT * FROM rel WHERE msrun_id IN ( ids ) conditions
Select(relations, toks) ==
    IF Len(toks) < 6 THEN EngineError
    ELSE IF toks[1] # Kw("SELECT * FROM") \/ toks[2].tag # "kw" THEN EngineError
    ELSE IF toks[2].str \notin relations THEN EngineError
    ELSE IF <<toks[3], toks[4], toks[5]>> # <<Kw("WHERE"), Kw("msrun_id"), Kw("IN")>>
         THEN EngineError
    ELSE IF toks[6] # Kw("(") THEN EngineError
    ELSE LET l == ParseIds(toks, 7, {})
         IN  IF ~l.ok THEN EngineError
             ELSE ParseConds(toks, l.next, KeepIn(Data(toks[2].str), l.ids),
                             Columns(toks[2].str))

WithOpen == Kw("WITH result AS (")
WithClose == Kw(") SELECT COUNT(1) AS row_count FROM result")

\* the position of the last WithClose of toks, 0 when none
LastClose(toks) ==
    LET at == {i \in 1..Len(toks) : toks[i] = WithClose}
    IN  IF at = {} THEN 0 ELSE CHOOSE i \in at : \A j \in at : j <= i

RECURSIVE Statement(_, _)
\* a statement: a selection, or the row count of a statement named result
Statement(relations, toks) ==
    IF toks # << >> /\ toks[1] = WithOpen
    THEN LET j == LastClose(toks)
         IN  IF j < 2 THEN EngineError
             ELSE LET inner == Statement(relations, SubSeq(toks, 2, j - 1))
                  IN  IF inner.err THEN EngineError
                      ELSE ParseConds(toks, j + 1,
                               <<[row_count |-> Len(inner.rows)]>>, {"row_count"})
    ELSE Select(relations, toks)

\* con.execute(text).df()
Execute(con, text) ==
    IF con.closed THEN EngineError
    ELSE Statement(con.relations, Significant(text))

-----------------------------------------------------------------------------
(* sql.py: MisoQuery *)

\* MisoQuery(query): the text and self.lines
MisoQuery(query) == [lines |-> split(query), text |-> query]

\* the caller holds no Query Object
NoQuery == [lines |-> << >>, text |-> << >>]

\* the text run() hands to the engine: self, or self + "\n" + footer
run_text(self, footer) ==
    IF footer # << >> THEN MisoQuery(self.text \o <<NL>> \o footer).text
    ELSE self.text

\* run_self were the footer appended to the receiver itself
run_self_appended(self, footer) ==
    IF footer # << >> THEN MisoQuery(self.text \o <<NL>> \o footer) ELSE self

\* the receiver after run(): "self = MisoQuery(..)" rebinds the local name
run_self(self, footer) == self

\* run_result were the except clause to raise again
run_result_reraised(r) ==
    IF r.err THEN Raise("duckdb.Error", TRUE) ELSE Ok([cols |-> r.cols, rows |-> r.rows], FALSE)

\* what run() does with the engine's answer r to its one call
run_result(r) == IF r.err THEN None(TRUE) ELSE Ok([cols |-> r.cols, rows |-> r.rows], FALSE)

\* the calls of con.execute that run() makes, in order
run_calls(self, db_engine, footer) ==
    IF db_engine = "duckdb" THEN <<run_text(self, footer)>> ELSE << >>

\* MisoQuery.run(db_engine, footer)
run(self, con, db_engine, footer) ==
    IF db_engine = "duckdb" THEN run_result(Execute(con, run_text(self, footer)))
    ELSE Raise("NotImplementedError", FALSE)

\* count were it to wrap the first line only
count_first_line(self) ==
    MisoQuery(join(<< <<WithOpen>>, <<TAB>> \o self.lines[1], <<WithClose>> >>))

\* MisoQuery.count
count(self) ==
    MisoQuery(join(<< <<WithOpen>>,
                      join([i \in 1..Len(self.lines) |-> <<TAB>> \o self.lines[i]]),
                      <<WithClose>> >>))

\* the receiver after reading count
count_self(self) == self

RECURSIVE wrap(_, _)
\* self.count.count ... count, k times
wrap(self, k) == IF k = 0 THEN self ELSE count(wrap(self, k - 1))

-----------------------------------------------------------------------------
(* sql.py: the template files of the package (duckdb/*.sql) *)

ChromatogramsSql == "duckdb/get_chromatograms.sql"
Ms1FeaturesSql == "duckdb/get_ms1_features.sql"

\* the .sql files pkgutil.get_data finds
PackageFiles == {ChromatogramsSql, Ms1FeaturesSql}

\* the text of a template file
PackageData(name) ==
    IF name = ChromatogramsSql THEN
      << Kw("SELECT * FROM"), Kw("frames"), NL,
         Kw("WHERE"), Kw("msrun_id"), Kw("IN"), Ph("msrun_ids"), NL,
         TAB, Kw("AND"), Kw("ms_level"), Kw("="), Ph("ms_level") >>
    ELSE
      << Kw("SELECT * FROM"), Kw("features"), NL,
         Kw("WHERE"), Kw("msrun_id"), Kw("IN"), Ph("msrun_ids"), Ph("filter_clauses"), NL,
         TAB, Kw("AND"), Kw("intensity"), Kw(">="), Ph("min_ms1_intensity"), NL,
         TAB, Kw("AND"), Kw("drt"), Kw("<="), Ph("rt_window"), NL,
         TAB, Kw("AND"), Kw("dtof"), Kw("<="), Ph("tof_window"), NL,
         TAB, Kw("AND"), Kw("dscan"), Kw("<="), Ph("spectrum_window") >>

\* a template argument: the name of a .sql file, or a template string itself
SqlFile(name) == [name |-> name, sql |-> TRUE, text |-> << >>]
TemplateString(text) == [name |-> "", sql |-> FALSE, text |-> text]

-----------------------------------------------------------------------------
(* sql.py: utility functions *)

\* fetch_template(template)
fetch_template(template) ==
    IF template.sql
    THEN IF template.name \in PackageFiles
         THEN Ok(PackageData(template.name), FALSE)
         ELSE Raise("UnboundLocalError", TRUE)
    ELSE Ok(template.text, FALSE)

\* the orders in which iterating a collection yields its elements
Orders(arg) ==
    IF arg.kind = "set"
    THEN {p \in [1..Len(arg.elems) -> 1..Len(arg.elems)] :
             \A i, j \in 1..Len(arg.elems) : i # j => p[i] # p[j]}
    ELSE {[i \in 1..Len(arg.elems) |-> i]}

\* f"('{x}')"
quoted(x) == <<Kw("("), Kw("'"), Raw(x), Kw("'"), Kw(")")>>

RECURSIVE tuple_items(_)
tuple_items(elems) ==
    IF elems = << >> THEN << >>
    ELSE <<Kw("'"), Raw(Head(elems)), Kw("'")>>
         \o (IF Len(elems) > 1 THEN <<Kw(",")>> ELSE << >>)
         \o tuple_items(Tail(elems))

\* str(tuple(elems)) of a tuple of strings
tuple_str(elems) ==
    <<Kw("(")>> \o tuple_items(elems)
    \o (IF Len(elems) = 1 THEN <<Kw(",")>> ELSE << >>) \o <<Kw(")")>>

\* sanitize_list(list_like_arg): the outcomes it may have, _ids as inserted text
sanitize_list(list_like_arg) ==
    IF list_like_arg.kind = "str" THEN {Ok(quoted(list_like_arg.elems[1]), FALSE)}
    ELSE IF list_like_arg.kind \in {"list", "tuple", "set", "ndarray", "Series"}
    THEN IF Len(list_like_arg.elems) = 1
         THEN IF list_like_arg.kind = "set"
              THEN {Raise("TypeError: 'set' object is not subscriptable", FALSE)}
              ELSE {Ok(quoted(list_like_arg.elems[1]), FALSE)}
         ELSE {Ok(tuple_str([i \in 1..Len(list_like_arg.elems) |-> list_like_arg.elems[p[i]]]),
                  FALSE) : p \in Orders(list_like_arg)}
    ELSE {Raise("TypeError: IDs must be one of", FALSE)}

\* validate_range with < for <=
validate_range_strict(field_range) ==
    IF field_range.kind = "None" THEN "False"
    ELSE IF /\ field_range.kind \in {"list", "tuple", "ndarray"}
            /\ Len(field_range.elems) = 2
            /\ field_range.elems[1] < field_range.elems[2]
         THEN "True"
    ELSE "ValueError"

\* validate_range(field_range): "True", "False", or the exception raised
validate_range(field_range) ==
    IF field_range.kind = "None" THEN "False"
    ELSE IF /\ field_range.kind \in {"list", "tuple", "ndarray"}
            /\ Len(field_range.elems) = 2
            /\ field_range.elems[1] <= field_range.elems[2]
         THEN "True"
    ELSE "ValueError"

RECURSIVE format(_, _)
\* template.format(**kw): each {name} replaced by the text of kw[name]
format(template, kw) ==
    IF template = << >> THEN << >>
    ELSE IF Len(template) = 1
         THEN IF template[1].tag = "ph" THEN kw[template[1].str] ELSE template
    ELSE LET h == Len(template) \div 2
         IN  format(SubSeq(template, 1, h), kw)
             \o format(SubSeq(template, h + 1, Len(template)), kw)

-----------------------------------------------------------------------------
(* sql.py: query functions *)

\* get_chromatograms(msrun_ids, ms_level=.., template=..): its possible outcomes
get_chromatograms(msrun_ids, ms_level, template) ==
    { IF ids.kind # "ok" THEN ids
      ELSE LET t == fetch_template(template)
           IN  IF t.kind # "ok" THEN t
               ELSE Ok(MisoQuery(format(t.value,
                          [name \in {"msrun_ids", "ms_level"} |->
                              IF name = "msrun_ids" THEN ids.value ELSE py_str(ms_level)])),
                       FALSE)
      : ids \in sanitize_list(msrun_ids) }

\* "\n\t" + f"AND {field} BETWEEN {r[0]} AND {r[1]}"
range_clause(field, r) ==
    <<NL, TAB, Kw("AND"), Kw(field), Kw("BETWEEN"), Num(r.elems[1]), Kw("AND"), Num(r.elems[2])>>

\* "\n\t" + f"AND feature_id = {feature_id}"
feature_clause(feature_id) ==
    <<NL, TAB, Kw("AND"), Kw("feature_id"), Kw("=")>> \o py_str(feature_id)

\* filter_clauses with the time range ahead of the mass range
filter_clauses_swapped(feature_id, mz_range, rt_range) ==
    LET c1 == IF feature_id # PyNone THEN feature_clause(feature_id) ELSE << >>
        v2 == validate_range(mz_range)
        v3 == validate_range(rt_range)
    IN  IF v2 = "ValueError" THEN Raise("ValueError", FALSE)
        ELSE IF v3 = "ValueError" THEN Raise("ValueError", FALSE)
        ELSE Ok(c1 \o (IF v3 = "True" THEN range_clause("rt", rt_range) ELSE << >>)
                   \o (IF v2 = "True" THEN range_clause("mz", mz_range) ELSE << >>), FALSE)

\* _filter_clauses of get_ms1_features, or the exception a range raises
filter_clauses(feature_id, mz_range, rt_range) ==
    LET c1 == IF feature_id # PyNone THEN feature_clause(feature_id) ELSE << >>
        v2 == validate_range(mz_range)
        v3 == validate_range(rt_range)
    IN  IF v2 = "ValueError" THEN Raise("ValueError", FALSE)
        ELSE IF v3 = "ValueError" THEN Raise("ValueError", FALSE)
        ELSE Ok(c1 \o (IF v2 = "True" THEN range_clause("mz", mz_range) ELSE << >>)
                   \o (IF v3 = "True" THEN range_clause("rt", rt_range) ELSE << >>), FALSE)

\* get_ms1_features(msrun_ids, feature_id=.., .., template=..): its possible outcomes
get_ms1_features(msrun_ids, feature_id, mz_range, rt_range, min_ms1_intensity, rt_window, spectrum_window, tof_window, template) ==
    LET f == filter_clauses(feature_id, mz_range, rt_range)
    IN  IF f.kind # "ok" THEN {f}
        ELSE
          { IF ids.kind # "ok" THEN ids
            ELSE LET t == fetch_template(template)
                 IN  IF t.kind # "ok" THEN t
                     ELSE Ok(MisoQuery(format(t.value,
                                [name \in {"msrun_ids", "filter_clauses", "min_ms1_intensity",
                                           "rt_window", "tof_window", "spectrum_window"} |->
                                    CASE name = "msrun_ids" -> ids.value
                                      [] name = "filter_clauses" -> f.value
                                      [] name = "min_ms1_intensity" -> py_str(min_ms1_intensity)
                                      [] name = "rt_window" -> py_str(rt_window)
                                      [] name = "tof_window" -> py_str(tof_window)
                                      [] OTHER -> py_str(spectrum_window)])),
                             FALSE)
            : ids \in sanitize_list(msrun_ids) }

-----------------------------------------------------------------------------
(* What a caller passes *)

Charges == (-MaxCharge)..MaxCharge
Precisions == {LowPrecision, LrmsPrecision, HrmsPrecision}
Thresholds == ThDefault..MaxTh
Tolerances == {1, TolDefault, MaxTol}

Ids == {"RUN1", "RUN2"}
Collection(kind, elems) == [elems |-> elems, kind |-> kind]

MsrunArgs ==
    {Collection("str", <<x>>) : x \in Ids}
    \cup {Collection(k, <<"RUN1">>) : k \in {"list", "tuple", "set", "ndarray", "Series"}}
    \cup {Collection("list", <<"RUN2">>),
          Collection("list", <<"RUN1", "RUN2">>),
          Collection("set", <<"RUN1", "RUN2">>),
          Collection("list", << >>),
          Collection("int", << >>)}

NoRange == Collection("None", << >>)
MzRanges ==
    {NoRange, Collection("list", <<2, 5>>), Collection("list", <<5, 2>>),
     Collection("tuple", <<3, 3>>), Collection("list", <<2>>),
     Collection("ndarray", <<2, 5, 9>>)}
RtRanges == {NoRange, Collection("ndarray", <<1, 4>>), Collection("tuple", <<4, 1>>)}

FeatureIds == {PyNone, PyInt(0)}
\* ms_level: 1, 2, or a value that is no MS level
MsLevels == {PyInt(1), PyInt(2), PyStr("one")}

\* a template string of the caller's own, over a relation that is not registered
OwnTemplate ==
    TemplateString(<< Kw("SELECT * FROM"), Kw("peaks"), NL,
                      Kw("WHERE"), Kw("msrun_id"), Kw("IN"), Ph("msrun_ids"),
                      Ph("filter_clauses") >>)
OwnChromTemplate ==
    TemplateString(<< Kw("SELECT * FROM"), Kw("peaks"), NL,
                      Kw("WHERE"), Kw("msrun_id"), Kw("IN"), Ph("msrun_ids") >>)
MissingSql == SqlFile("duckdb/missing.sql")

Ms1Templates == {SqlFile(Ms1FeaturesSql), MissingSql, OwnTemplate}
ChromTemplates == {SqlFile(ChromatogramsSql), MissingSql, OwnChromTemplate}

Footers ==
    { << >>,
      <<Kw("LIMIT"), Num(2)>>,
      <<Kw("LIMIT")>>,
      <<Kw("AND"), Kw("rt"), Kw(">="), Num(2), NL, Kw("LIMIT"), Num(1)>> }
Engines == {"duckdb", "athena"}

-----------------------------------------------------------------------------
(* The session *)

\* register_parquet_data(): one relation per folder of DATA_ROOT
register_parquet_data == [closed |-> FALSE, relations |-> Tables]

Init ==
    /\ conn = register_parquet_data
    /\ msq = NoQuery
    /\ op = "import"
    /\ args = [module |-> "misosoup"]
    /\ out = Ok(<< >>, FALSE)
    /\ calls = << >>

\* the caller keeps what the build returned, or nothing
held(o) == IF o.kind = "ok" THEN o.value ELSE NoQuery

Hrms ==
    \E formula \in Formulas, charge \in Charges, precision \in Precisions, th \in Thresholds :
        /\ op' = "hrms"
        /\ args' = [charge |-> charge, formula |-> formula, precision |-> precision, th |-> th]
        /\ out' = hrms(formula, charge, precision, th)
        /\ calls' = << >>
        /\ UNCHANGED <<conn, msq>>

Lrms ==
    \E formula \in Formulas, charge \in Charges, precision \in Precisions :
        /\ op' = "lrms"
        /\ args' = [charge |-> charge, formula |-> formula, precision |-> precision]
        /\ out' = lrms(formula, charge, precision)
        /\ calls' = << >>
        /\ UNCHANGED <<conn, msq>>

MwRange ==
    \E mf \in Formulas, charge \in Charges, tol_ppm \in Tolerances :
        /\ op' = "mw_range"
        /\ args' = [charge |-> charge, formula |-> mf, tol_ppm |-> tol_ppm]
        /\ out' = mw_range(mf, charge, tol_ppm)
        /\ calls' = << >>
        /\ UNCHANGED <<conn, msq>>

GetChromatograms ==
    \E msrun_ids \in MsrunArgs, ms_level \in MsLevels, template \in ChromTemplates :
      \E o \in get_chromatograms(msrun_ids, ms_level, template) :
        /\ op' = "get_chromatograms"
        /\ args' = [ms_level |-> ms_level, msrun_ids |-> msrun_ids, template |-> template]
        /\ out' = o
        /\ msq' = held(o)
        /\ calls' = << >>
        /\ UNCHANGED conn

GetMs1Features ==
    \E msrun_ids \in MsrunArgs, feature_id \in FeatureIds, mz_range \in MzRanges,
       rt_range \in RtRanges, template \in Ms1Templates :
      \E o \in get_ms1_features(msrun_ids, feature_id, mz_range, rt_range,
                                 PyInt(MinMs1Intensity), PyInt(RtWindow),
                                 PyInt(SpectrumWindow), PyInt(TofWindow), template) :
        /\ op' = "get_ms1_features"
        /\ args' = [feature_id |-> feature_id, msrun_ids |-> msrun_ids,
                    mz_range |-> mz_range, rt_range |-> rt_range, template |-> template]
        /\ out' = o
        /\ msq' = held(o)
        /\ calls' = << >>
        /\ UNCHANGED conn

\* msq.count
Count ==
    /\ msq # NoQuery
    /\ op' = "count"
    /\ args' = [wrap |-> 1]
    /\ out' = Ok(count(msq), FALSE)
    /\ msq' = count_self(msq)
    /\ calls' = << >>
    /\ UNCHANGED conn

\* msq.run(db_engine, footer), or msq.count.run(db_engine, footer)
Run ==
    /\ msq # NoQuery
    /\ \E k \in 0..MaxWrap, db_engine \in Engines, footer \in Footers :
        /\ op' = "run"
        /\ args' = [db_engine |-> db_engine, footer |-> footer, wrap |-> k]
        /\ out' = run(wrap(msq, k), conn, db_engine, footer)
        /\ calls' = run_calls(wrap(msq, k), db_engine, footer)
        /\ msq' = IF k = 0 THEN run_self(msq, footer) ELSE count_self(msq)
        /\ UNCHANGED conn

NextSql == GetChromatograms \/ GetMs1Features \/ Count \/ Run
NextMol == Hrms \/ Lrms \/ MwRange

Next == NextSql

\* a session of query builds and runs
Spec == Init /\ [][Next]_vars
\* a session of isotope simulations
SpecMol == Init /\ [][NextMol]_vars

-----------------------------------------------------------------------------
(* Properties *)

\* the raw mass the engine gave for row i of the table returned last
RawMass(i) ==
    IF op = "hrms" THEN Isotopologues(args.formula)[out.value[i].idx + 1][1]
    ELSE LET s == molmass_spectrum(args.formula)
         IN  s[CHOOSE k \in 1..Len(s) : s[k][1] = out.value[i].idx][2]

\* t, in units of 10^-precision, is a decimal nearest to num/den mass units
Nearest(t, num, den, precision) ==
    LET unit == den * Pow10(MassDigits - precision)
        below == num \div unit
        rest == num % unit
    IN  \/ t = below /\ 2 * rest <= unit
        \/ t = below + 1 /\ 2 * (unit - rest) <= unit

\* C1: every theoretical_mz of a table of hrms or lrms is
\* (raw_mass - 0.00054858*c) / |c| for a charge c # 0 and the raw mass for
\* c = 0, rounded to the precision asked for, for c < 0 as for c > 0.
C1_ChargeCorrection ==
    (op \in {"hrms", "lrms"} /\ out.kind = "ok") =>
        \A i \in 1..Len(out.value) :
            IF args.charge # 0
            THEN Nearest(out.value[i].tmz, RawMass(i) - ME * args.charge,
                         Abs(args.charge), args.precision)
            ELSE Nearest(out.value[i].tmz, RawMass(i), 1, args.precision)

\* a fine table of several rows for a doubly negative ion
C1_Witness ==
    /\ op = "hrms" /\ out.kind = "ok"
    /\ args.charge = -2 /\ Len(out.value) > 1

\* a range argument that is two numbers low <= high
GoodRange(r) == r.kind # "None" /\ Len(r.elems) = 2 /\ r.elems[1] <= r.elems[2]
\* a range argument that is given and is not two numbers low <= high
BadRange(r) == r.kind # "None" /\ ~GoodRange(r)

\* where the text compares field with the operator cmp
ClauseAt(text, field, cmp) ==
    {i \in 1..(Len(text) - 1) : text[i] = Kw(field) /\ text[i + 1] = Kw(cmp)}

\* the text holds "field BETWEEN lo AND hi" for the two numbers of r
HasBounds(text, field, r) ==
    \E i \in ClauseAt(text, field, "BETWEEN") :
        /\ i + 4 <= Len(text)
        /\ text[i + 2] = Num(r.elems[1])
        /\ text[i + 3] = Kw("AND")
        /\ text[i + 4] = Num(r.elems[2])

\* C2: in get_ms1_features an absent range gives no clause for its field, a
\* range of two numbers low <= high (low = high too) gives a clause with both
\* bounds, and neither makes the build fail; a range of another arity or with
\* low > high makes the build fail with ValueError and no Query Object.
C2_RangeValidation ==
    op = "get_ms1_features" =>
        /\ (BadRange(args.mz_range) \/ BadRange(args.rt_range)) =>
               (out.kind = "raise" /\ out.exc = "ValueError" /\ msq = NoQuery)
        /\ (~BadRange(args.mz_range) /\ ~BadRange(args.rt_range)) =>
               /\ out.exc # "ValueError"
               /\ out.kind = "ok" =>
                    /\ GoodRange(args.mz_range) => HasBounds(out.value.text, "mz", args.mz_range)
                    /\ GoodRange(args.rt_range) => HasBounds(out.value.text, "rt", args.rt_range)
                    /\ args.mz_range = NoRange => ClauseAt(out.value.text, "mz", "BETWEEN") = {}
                    /\ args.rt_range = NoRange => ClauseAt(out.value.text, "rt", "BETWEEN") = {}

\* a build that succeeds with low = high for the mass and no time range
C2_Witness ==
    /\ op = "get_ms1_features" /\ out.kind = "ok"
    /\ args.mz_range.elems = <<3, 3>> /\ args.rt_range = NoRange
    /\ HasBounds(msq.text, "mz", args.mz_range)

\* the build issued last, with msrun_ids in place of its identifiers
SameBuild(msrun_ids) ==
    IF op = "get_chromatograms"
    THEN get_chromatograms(msrun_ids, args.ms_level, args.template)
    ELSE get_ms1_features(msrun_ids, args.feature_id, args.mz_range, args.rt_range,
                          PyInt(MinMs1Intensity), PyInt(RtWindow), PyInt(SpectrumWindow),
                          PyInt(TofWindow), args.template)

\* C3: a build with the one-element list, tuple, set, numpy array or Series
\* holding x ends as the build with the string x does: the same query text,
\* and no failure where the string succeeds.
C3_OneElementAsString ==
    ( /\ op \in {"get_chromatograms", "get_ms1_features"}
      /\ args.msrun_ids.kind \in {"list", "tuple", "set", "ndarray", "Series"}
      /\ Len(args.msrun_ids.elems) = 1 ) =>
        out \in SameBuild(Collection("str", args.msrun_ids.elems))

\* the positions of the filter clauses of a text, by filter
FeatureAt(text) == ClauseAt(text, "feature_id", "=")
MzAt(text) == ClauseAt(text, "mz", "BETWEEN")
RtAt(text) == ClauseAt(text, "rt", "BETWEEN")

\* C4: a text built by get_ms1_features holds the exact-match clause, the mass
\* clause and the time clause each once if its filter was supplied and not at
\* all otherwise, and those present stand in the order exact match, mass, time.
C4_ClausesInOrder ==
    (op = "get_ms1_features" /\ out.kind = "ok") =>
        LET text == out.value.text
        IN  /\ Cardinality(FeatureAt(text)) = (IF args.feature_id # PyNone THEN 1 ELSE 0)
            /\ Cardinality(MzAt(text)) = (IF args.mz_range # NoRange THEN 1 ELSE 0)
            /\ Cardinality(RtAt(text)) = (IF args.rt_range # NoRange THEN 1 ELSE 0)
            /\ \A i \in FeatureAt(text), j \in MzAt(text) \cup RtAt(text) : i < j
            /\ \A i \in MzAt(text), j \in RtAt(text) : i < j

\* a build with all three filters, the feature identifier being 0
C4_Witness ==
    /\ op = "get_ms1_features" /\ out.kind = "ok"
    /\ args.feature_id = PyInt(0)
    /\ args.mz_range # NoRange /\ args.rt_range # NoRange
    /\ FeatureAt(msq.text) # {} /\ MzAt(msq.text) # {} /\ RtAt(msq.text) # {}

\* C5: when running q succeeds, running q.count returns one row of one column
\* whose value is the number of rows of q's result; q.count is made from q's
\* text alone.
C5_CountEqualsRows ==
    ( /\ op = "run" /\ args.wrap >= 1
      /\ args.db_engine = "duckdb" /\ args.footer = << >> ) =>
        LET q == wrap(msq, args.wrap - 1)
            rows == run(q, conn, "duckdb", << >>)
        IN  /\ count(q) = count(MisoQuery(q.text))
            /\ rows.kind = "ok" =>
                 /\ out.kind = "ok"
                 /\ Cardinality(out.value.cols) = 1
                 /\ Len(out.value.rows) = 1
                 /\ out.value.rows[1].row_count = Len(rows.value.rows)

\* the count of a query of several lines that returns two rows or more
C5_Witness ==
    /\ op = "run" /\ args.wrap = 1
    /\ args.db_engine = "duckdb" /\ args.footer = << >>
    /\ out.kind = "ok" /\ out.value.rows[1].row_count >= 2
    /\ Len(msq.lines) > 2

\* C6: run, with or without footer, failing or not, and count leave the
\* receiver's text and lines as they were; a footer goes to the engine in a
\* new text, the receiver's text, a line break and the footer; count returns
\* a new Query Object.
C6_ReceiverUnchanged ==
    [][ /\ op' \in {"run", "count"} => msq' = msq
        /\ ( /\ op' = "run" /\ args'.wrap = 0
             /\ args'.db_engine = "duckdb" /\ args'.footer # << >> ) =>
               calls' = << msq.text \o <<NL>> \o args'.footer >>
        /\ op' = "count" =>
               /\ out'.value # msq
               /\ out'.value.lines = split(out'.value.text) ]_vars

\* a run with a footer that the engine refused
C6_Witness ==
    /\ op = "run" /\ args.wrap = 0 /\ args.footer # << >>
    /\ out.kind = "none" /\ msq # NoQuery
    /\ msq.lines = split(msq.text)

\* C7: run hands its text to the engine once; when the engine raises, run
\* logs the error and returns None, and no exception leaves run.
C7_EngineErrorIsNone ==
    (op = "run" /\ args.db_engine = "duckdb") =>
        /\ Len(calls) = 1
        /\ Execute(conn, calls[1]).err => (out.kind = "none" /\ out.logged)

\* a run of a query over a relation that is not registered
C7_Witness ==
    /\ op = "run" /\ args.db_engine = "duckdb" /\ args.wrap = 0
    /\ \E i \in 1..Len(msq.text) : msq.text[i] = Kw("peaks")
    /\ out.kind = "none" /\ Len(calls) = 1

\* the call failed with a signal of the package: None, or an exception it
\* raises on purpose
Recovered(o) == o.kind = "none" \/ (o.kind = "raise" /\ o.exc \in Signals)

\* C8: mw_range fails with an explicit no-result signal, not an uncaught
\* fault, when hrms returns no table for the formula or an empty one.
C8_MwRangeNoResult ==
    LET t == hrms(args.formula, args.charge, HrmsPrecision, ThDefault)
    IN  (op = "mw_range" /\ (t.kind = "none" \/ t.value = << >>)) => Recovered(out)

\* C9: a build that names a .sql template that is not found returns an
\* explicit no-result signal with a diagnostic; no fault leaves the build and
\* no Query Object is returned.
C9_MissingTemplateRecovered ==
    ( /\ op \in {"get_chromatograms", "get_ms1_features"}
      /\ args.template.sql /\ args.template.name \notin PackageFiles ) =>
        (Recovered(out) /\ msq = NoQuery)

\* C10: a failed request ends in a signal of the package, not in a fault that
\* ends the program, and leaves the engine connection and its relations as
\* they were registered.
C10_SessionUsable ==
    out.kind # "ok" => (Recovered(out) /\ conn = register_parquet_data)

\* C11 as stated: in every table of hrms the rows are strictly ascending by
\* theoretical_mz as it stands in the table, so no two rows share a
\* theoretical_mz.
C11_StrictlyAscending ==
    (op = "hrms" /\ out.kind = "ok") =>
        \A i \in 1..(Len(out.value) - 1) : out.value[i].tmz < out.value[i + 1].tmz

\* C11 amended: in every table of hrms the rows are strictly ascending by the
\* raw mass the engine gave and ascending, not strictly, by theoretical_mz as
\* it stands in the table: rows whose corrected masses round to the same
\* value at the precision asked for share a theoretical_mz.
C11_Ascending ==
    (op = "hrms" /\ out.kind = "ok") =>
        \A i \in 1..(Len(out.value) - 1) :
            /\ RawMass(i) < RawMass(i + 1)
            /\ out.value[i].tmz <= out.value[i + 1].tmz

\* a table whose engine order was not by mass and where two rows share a
\* theoretical_mz after rounding
C11_Witness ==
    /\ op = "hrms" /\ out.kind = "ok" /\ Len(out.value) > 2
    /\ \E i \in 1..(Len(out.value) - 1) : out.value[i].idx > out.value[i + 1].idx
    /\ \E i \in 1..(Len(out.value) - 1) : out.value[i].tmz = out.value[i + 1].tmz

\* the probability the engine gave for row i of the table hrms returned last
RawProb(i) == Isotopologues(args.formula)[out.value[i].idx + 1][2]

\* C12: every relative intensity of a table of hrms is the integer nearest to
\* p * 1e6 for the probability p the engine gave for the row, whatever the
\* charge, and lies in 0 .. 1,000,000.
C12_IntensityRounded ==
    (op = "hrms" /\ out.kind = "ok") =>
        \A i \in 1..Len(out.value) :
            /\ out.value[i].tri \in 0..Pow10(6)
            /\ Nearest(out.value[i].tri, RawProb(i), Pow10(ProbDigits - 6), MassDigits)

\* the fine table mw_range reads: hrms(mf, charge=charge)
FineTable == hrms(args.formula, args.charge, HrmsPrecision, ThDefault).value

\* the window <<low, high>> returned last is m*(1 -/+ tol_ppm*1e-6) rounded to
\* 6 decimals around the smallest theoretical_mz m of the fine table, with
\* low <= m <= high
WindowAroundLightest ==
    LET m == FineTable[1].tmz
        low == out.value[1]
        high == out.value[2]
    IN  /\ m > 0
        /\ \A i \in 1..Len(FineTable) : m <= FineTable[i].tmz
        /\ Nearest(m - low, m * args.tol_ppm, Pow10(6), MassDigits)
        /\ Nearest(high - m, m * args.tol_ppm, Pow10(6), MassDigits)
        /\ low <= m /\ m <= high

\* C13 as stated: for every formula with a fine table, every charge and every
\* tol_ppm > 0, mw_range returns the window around the lightest m/z m of the
\* fine table, rounded to 6 decimals, with low <= m <= high and low < high.
C13_WindowStrict ==
    (op = "mw_range" /\ out.kind = "ok") =>
        (WindowAroundLightest /\ out.value[1] < out.value[2])

\* C13 amended: mw_range returns the window around the lightest m/z m of the
\* fine table, rounded to 6 decimals, with low <= m <= high; low < high when
\* m * tol_ppm >= 1 Da ppm, and below that the rounding may give low = high.
C13_Window ==
    (op = "mw_range" /\ out.kind = "ok") =>
        /\ WindowAroundLightest
        /\ FineTable[1].tmz * args.tol_ppm >= Pow10(6) => out.value[1] < out.value[2]

\* the window of a doubly negative ion at the largest tolerance
C13_Witness ==
    /\ op = "mw_range" /\ out.kind = "ok"
    /\ args.charge = -2 /\ args.tol_ppm = MaxTol
    /\ out.value[1] < FineTable[1].tmz /\ FineTable[1].tmz < out.value[2]

\* token i of the text is an identifier in the quotes sanitize_list writes
QuotedAt(text, i) ==
    /\ 1 < i /\ i < Len(text)
    /\ text[i - 1] = Kw("'") /\ text[i + 1] = Kw("'")

\* C14: no caller-supplied value reaches the text of a built query without
\* having passed identifier sanitization or numeric-range validation: text of
\* the caller stands in the query only as a quoted run identifier, and every
\* other value substituted is a number.
C14_ValuesValidated ==
    (op \in {"get_chromatograms", "get_ms1_features"} /\ out.kind = "ok") =>
        \A i \in 1..Len(out.value.text) :
            out.value.text[i].tag = "raw" => QuotedAt(out.value.text, i)

\* the identifiers of a msrun_ids argument, as a set
IdSet(msrun_ids) == {msrun_ids.elems[i] : i \in 1..Len(msrun_ids.elems)}

\* the arguments of an accepted kind that hold the same identifiers
SameIds(msrun_ids) ==
    {c \in MsrunArgs :
        /\ c.kind \in {"str", "list", "tuple", "set", "ndarray", "Series"}
        /\ IdSet(c) = IdSet(msrun_ids)}

\* C15: the text of a built query is a function of the parameter set alone:
\* every successful build of the same query type with the same identifiers,
\* in any accepted collection kind, and the same other parameters gives the
\* text of the build issued last.
C15_TextDeterministic ==
    (op \in {"get_chromatograms", "get_ms1_features"} /\ out.kind = "ok") =>
        \A c \in SameIds(args.msrun_ids) :
            \A o \in SameBuild(c) : o.kind = "ok" => o.value.text = out.value.text

\* C16: the identifier list of a built query is never empty: after every IN
\* of its text stands a parenthesis that holds an identifier.
C16_IdentifiersNotEmpty ==
    (op \in {"get_chromatograms", "get_ms1_features"} /\ out.kind = "ok") =>
        \A i \in 1..Len(out.value.text) :
            out.value.text[i] = Kw("IN") =>
                /\ i + 2 <= Len(out.value.text)
                /\ out.value.text[i + 1] = Kw("(")
                /\ out.value.text[i + 2] # Kw(")")

====
